---- MODULE Spec2Model ----
(***************************************************************************)
(* Model of the account-creation form of src/components/InteractiveForm.tsx *)
(* and of the field view of src/components/InputField.tsx.                  *)
(*                                                                         *)
(* A JavaScript string is a sequence of one-character strings, so that     *)
(* trim(), replace(/\s+/g, '') and the regular expressions of validate are *)
(* computed character by character.  The JavaScript value undefined is the *)
(* value `undefined' below; an error map is a function whose domain is the *)
(* set of keys the object holds (a key may hold undefined).                *)
(***************************************************************************)
EXTENDS Integers, Sequences, FiniteSets, TLC

VARIABLES
    formData,       \* useState<FormState>: field name -> string
    errors,         \* useState<FormErrors>: partial map field name -> message | undefined
    touched,        \* useState<Partial<Record<..., boolean>>>: the keys holding true
    showPassword,   \* useState(false)
    isSubmitted,    \* useState(false)
    lastEvent,      \* the event handled last: "mount" (none yet), "edit" (a change,
                    \* a blur or the eye button), "submit" or "reset"
    blurred,        \* fields that received a blur event since mount or the last reset
    submitAttempted,\* whether a submit event was handled since mount or the last reset
    call            \* one invocation of validate: [name, value, result]

vars == <<formData, errors, touched, showPassword, isSubmitted,
          lastEvent, blurred, submitAttempted, call>>

formVars == <<formData, errors, touched, showPassword, isSubmitted,
              lastEvent, blurred, submitAttempted>>

-----------------------------------------------------------------------------
(* Bounds of the model *)

\* number of strings of ValuePool a change event may carry
MaxValues == 4

\* longest string handed to validate by the specification SpecValidate
MaxCallLen == 3

\* longest string over EmailAlphabet handed to validate by SpecValidate
MaxEmailLen == 5

-----------------------------------------------------------------------------
(* Strings *)

undefined == "undefined"

FieldNames == {"name", "email", "phone", "password"}

\* Object.keys(formData): insertion order of the initial object literal
FieldKeys == <<"name", "email", "phone", "password">>

Digits == {"0", "1", "2", "3", "4", "5", "6", "7", "8", "9"}

LowerCase == {"a", "b", "c", "d", "e", "f", "g", "h", "i", "j", "k", "l", "m",
              "n", "o", "p", "q", "r", "s", "t", "u", "v", "w", "x", "y", "z"}

UpperCase == {"A", "B", "C", "D", "E", "F", "G", "H", "I", "J", "K", "L", "M",
              "N", "O", "P", "Q", "R", "S", "T", "U", "V", "W", "X", "Y", "Z"}

\* the class [@$!%*?&]
SpecialChars == {"@", "$", "!", "%", "*", "?", "&"}

\* the class \s, restricted to the white space the model types
WhiteSpace == {" ", "\t"}

\* value.length < 8
MinPasswordLength == 8

\* \d{10,15}
MinPhoneDigits == 10

MaxPhoneDigits == 15

\* String.prototype.trim
RECURSIVE trimStart(_)
trimStart(s) ==
    IF s # <<>> /\ Head(s) \in WhiteSpace THEN trimStart(Tail(s)) ELSE s

RECURSIVE trimEnd(_)
trimEnd(s) ==
    IF s # <<>> /\ s[Len(s)] \in WhiteSpace
    THEN trimEnd(SubSeq(s, 1, Len(s) - 1))
    ELSE s

trim(s) == trimEnd(trimStart(s))

\* value.replace(/\s+/g, '')
IsNotSpace(c) == c \notin WhiteSpace

stripWhiteSpace(s) == SelectSeq(s, IsNotSpace)

\* /^[^\s@]+@[^\s@]+\.[^\s@]+$/.test(value)
EmailPart(s, from, to) ==
    /\ from <= to
    /\ \A k \in from..to : s[k] \notin WhiteSpace /\ s[k] # "@"

\* faulty variant: the pattern without the "." and the part after it
emailPatternNoTld(s) ==
    \E i \in 1..Len(s) :
        /\ s[i] = "@"
        /\ EmailPart(s, 1, i - 1)
        /\ EmailPart(s, i + 1, Len(s))

emailPattern(s) ==
    \E i \in 1..Len(s) : \E j \in 1..Len(s) :
        /\ s[i] = "@"
        /\ s[j] = "."
        /\ EmailPart(s, 1, i - 1)
        /\ EmailPart(s, i + 1, j - 1)
        /\ EmailPart(s, j + 1, Len(s))

\* /^\d{10,15}$/.test(value)
phonePattern(s) ==
    /\ Len(s) >= MinPhoneDigits
    /\ Len(s) <= MaxPhoneDigits
    /\ \A k \in 1..Len(s) : s[k] \in Digits

\* /[...]/.test(value) for a character class
Contains(s, class) == \E k \in 1..Len(s) : s[k] \in class

-----------------------------------------------------------------------------
(* validate *)

\* faulty variant: the name is tested without trim()
validateNameNoTrim(value) ==
    IF value # <<>> THEN undefined ELSE "Name is required."

validateName(value) ==
    IF trim(value) # <<>> THEN undefined ELSE "Name is required."

validateEmail(value) ==
    IF value = <<>> THEN "Email is required."
    ELSE IF ~emailPattern(value) THEN "Invalid email format."
    ELSE undefined

\* faulty variant: the white space is not removed before the digit test
validatePhoneNoStrip(value) ==
    IF value = <<>> THEN "Phone number is required."
    ELSE IF ~phonePattern(value) THEN "Phone must be 10 to 15 digits."
    ELSE undefined

validatePhone(value) ==
    IF value = <<>> THEN "Phone number is required."
    ELSE IF ~phonePattern(stripWhiteSpace(value)) THEN "Phone must be 10 to 15 digits."
    ELSE undefined

\* faulty variant: the special-character rule applied before the uppercase rule
validatePasswordSpecialFirst(value) ==
    IF value = <<>> THEN "Password is required."
    ELSE IF Len(value) < MinPasswordLength
        THEN "Password must be at least 8 characters long."
    ELSE IF ~Contains(value, LowerCase) THEN "Must contain a lowercase letter."
    ELSE IF ~Contains(value, SpecialChars)
        THEN "Must contain a special character (@$!%*?&)."
    ELSE IF ~Contains(value, UpperCase) THEN "Must contain an uppercase letter."
    ELSE IF ~Contains(value, Digits) THEN "Must contain a number."
    ELSE undefined

\* faulty variant: the length rule applied before the required rule
validatePasswordLengthFirst(value) ==
    IF Len(value) < MinPasswordLength
        THEN "Password must be at least 8 characters long."
    ELSE IF value = <<>> THEN "Password is required."
    ELSE IF ~Contains(value, LowerCase) THEN "Must contain a lowercase letter."
    ELSE IF ~Contains(value, UpperCase) THEN "Must contain an uppercase letter."
    ELSE IF ~Contains(value, Digits) THEN "Must contain a number."
    ELSE IF ~Contains(value, SpecialChars)
        THEN "Must contain a special character (@$!%*?&)."
    ELSE undefined

validatePassword(value) ==
    IF value = <<>> THEN "Password is required."
    ELSE IF Len(value) < MinPasswordLength
        THEN "Password must be at least 8 characters long."
    ELSE IF ~Contains(value, LowerCase) THEN "Must contain a lowercase letter."
    ELSE IF ~Contains(value, UpperCase) THEN "Must contain an uppercase letter."
    ELSE IF ~Contains(value, Digits) THEN "Must contain a number."
    ELSE IF ~Contains(value, SpecialChars)
        THEN "Must contain a special character (@$!%*?&)."
    ELSE undefined

validate(name, value) ==
    CASE name = "name" -> validateName(value)
      [] name = "email" -> validateEmail(value)
      [] name = "phone" -> validatePhone(value)
      [] name = "password" -> validatePassword(value)
      [] OTHER -> undefined

-----------------------------------------------------------------------------
(* State of the component *)

EmptyString == <<>>

\* {}: an object with no key
EmptyMap == [k \in {} |-> undefined]

\* { ...prev, [name]: value }
Spread(prev, name, value) ==
    [k \in (DOMAIN prev) \cup {name} |-> IF k = name THEN value ELSE prev[k]]

\* obj[name] of a partial map: undefined when the key is absent
Lookup(obj, name) == IF name \in DOMAIN obj THEN obj[name] ELSE undefined

\* the strings a change event may carry
ValuePool ==
    << <<>>,
       <<" ">>,
       <<"A", "b", "1", "!", "@", "b", ".", "c", "d">>,
       <<"1", "2", "3", "4", "5", "6", "7", "8", "9", "0">>,
       <<" ", " ", " ", " ", " ", " ", " ", " ">>,
       <<"a", "b", "c">>,
       <<"A", "b", "c", "d", "e", "f", "1", "!">>,
       <<"a", "@", "b", ".", "c">> >>

Values == {ValuePool[i] : i \in 1..MaxValues}

\* the useState initial values
InitialState ==
    [formData |-> [k \in FieldNames |-> EmptyString],
     errors |-> EmptyMap,
     touched |-> {},
     showPassword |-> FALSE,
     isSubmitted |-> FALSE]

\* the state the current render closes over
State ==
    [formData |-> formData,
     errors |-> errors,
     touched |-> touched,
     showPassword |-> showPassword,
     isSubmitted |-> isSubmitted]

-----------------------------------------------------------------------------
(* Handlers, as functions from the rendered state to the next state *)

\* faulty variant: a change marks the field touched
handleChangeTouches(s, name, value) ==
    [s EXCEPT
        !.formData = [@ EXCEPT ![name] = value],
        !.touched = @ \cup {name},
        !.errors = IF name \in s.touched
                   THEN Spread(@, name, validate(name, value))
                   ELSE @]

\* faulty variant: a change clears the touched flag of the field
handleChangeClearsTouched(s, name, value) ==
    [s EXCEPT
        !.formData = [@ EXCEPT ![name] = value],
        !.touched = @ \ {name},
        !.errors = IF name \in s.touched
                   THEN Spread(@, name, validate(name, value))
                   ELSE @]

\* faulty variant: the error of a touched field is not recomputed on change
handleChangeNoRevalidate(s, name, value) ==
    [s EXCEPT !.formData = [@ EXCEPT ![name] = value]]

handleChange(s, name, value) ==
    [s EXCEPT
        !.formData = [@ EXCEPT ![name] = value],
        !.errors = IF name \in s.touched
                   THEN Spread(@, name, validate(name, value))
                   ELSE @]

\* faulty variant: a blur marks the field touched without validating it
handleBlurNoValidate(s, name, value) ==
    [s EXCEPT !.touched = @ \cup {name}]

handleBlur(s, name, value) ==
    [s EXCEPT
        !.touched = @ \cup {name},
        !.errors = Spread(@, name, validate(name, value))]

\* Object.keys(formData).reduce(..., {}): a key is set only for a truthy error
RECURSIVE reduceErrors(_, _, _)
reduceErrors(keys, data, acc) ==
    IF keys = <<>> THEN acc
    ELSE LET fieldKey == Head(keys)
             error == validate(fieldKey, data[fieldKey])
         IN reduceErrors(Tail(keys), data,
                IF error # undefined THEN Spread(acc, fieldKey, error) ELSE acc)

\* faulty variant: only the blank check, no validation
isFormValidBlankOnly(s) == \A k \in FieldNames : trim(s.formData[k]) # <<>>

\* Object.values(formData).every(value => value.trim() !== '')
hasAllFields(s) == \A k \in FieldNames : trim(s.formData[k]) # EmptyString

isFormValid(s) ==
    IF ~hasAllFields(s) THEN FALSE
    ELSE LET currentErrors == reduceErrors(FieldKeys, s.formData, EmptyMap)
         IN DOMAIN currentErrors = {}

\* faulty variant: setTouched(allTouched) left out
handleSubmitKeepTouched(s) ==
    LET validationErrors == reduceErrors(FieldKeys, s.formData, EmptyMap)
    IN [s EXCEPT
            !.errors = validationErrors,
            !.isSubmitted = IF DOMAIN validationErrors = {} THEN TRUE ELSE @]

\* faulty variant: setIsSubmitted(true) outside the test of validationErrors
handleSubmitAlways(s) ==
    LET allTouched == {"name", "email", "phone", "password"}
        validationErrors == reduceErrors(FieldKeys, s.formData, EmptyMap)
    IN [s EXCEPT
            !.touched = allTouched,
            !.errors = validationErrors,
            !.isSubmitted = TRUE]

\* faulty variant: only the touched fields are validated
handleSubmitTouchedOnly(s) ==
    LET allTouched == {"name", "email", "phone", "password"}
        touchedKeys == SelectSeq(FieldKeys, LAMBDA k : k \in s.touched)
        validationErrors == reduceErrors(touchedKeys, s.formData, EmptyMap)
    IN [s EXCEPT
            !.touched = allTouched,
            !.errors = validationErrors,
            !.isSubmitted = IF DOMAIN validationErrors = {} THEN TRUE ELSE @]

handleSubmit(s) ==
    LET allTouched == {"name", "email", "phone", "password"}
        validationErrors == reduceErrors(FieldKeys, s.formData, EmptyMap)
    IN [s EXCEPT
            !.touched = allTouched,
            !.errors = validationErrors,
            !.isSubmitted = IF DOMAIN validationErrors = {} THEN TRUE ELSE @]

\* faulty variant: setTouched({}) left out
handleResetKeepTouched(s) ==
    [s EXCEPT
        !.isSubmitted = FALSE,
        !.formData = [name |-> EmptyString, email |-> EmptyString,
                      phone |-> EmptyString, password |-> EmptyString],
        !.errors = EmptyMap]

handleReset(s) ==
    [s EXCEPT
        !.isSubmitted = FALSE,
        !.formData = [name |-> EmptyString, email |-> EmptyString,
                      phone |-> EmptyString, password |-> EmptyString],
        !.errors = EmptyMap,
        !.touched = {}]

\* onClick={() => setShowPassword(!showPassword)}
togglePassword(s) == [s EXCEPT !.showPassword = ~@]

-----------------------------------------------------------------------------
(* The rendered view *)

\* faulty variant: the form stays mounted behind the confirmation view
formRenderedAlways(s) == TRUE

\* if (isSubmitted) return <confirmation view>; else the form
formRendered(s) == ~s.isSubmitted

\* the confirmation view, the only place of the "Submit Another" button
resetRendered(s) == s.isSubmitted

\* error={touched.name ? errors.name : undefined}
errorProp(s, name) ==
    IF name \in s.touched THEN Lookup(s.errors, name) ELSE undefined

\* InputField: const hasError = !!error
hasError(error) == error # undefined

\* InputField: const isTouchedAndValid = value && !error
isTouchedAndValid(value, error) == value # EmptyString /\ ~hasError(error)

\* InputField: which of the three border classes the input gets
inputClasses(value, error) ==
    IF hasError(error) THEN "error"
    ELSE IF isTouchedAndValid(value, error) THEN "success"
    ELSE "neutral"

\* the submit button: rendered with the form, disabled={!isFormValid}
submitEnabled(s) == formRendered(s) /\ isFormValid(s)

-----------------------------------------------------------------------------
(* Events *)

Idle == [name |-> "name", value |-> EmptyString, result |-> "pending"]

Init ==
    /\ formData = InitialState.formData
    /\ errors = InitialState.errors
    /\ touched = InitialState.touched
    /\ showPassword = InitialState.showPassword
    /\ isSubmitted = InitialState.isSubmitted
    /\ lastEvent = "mount"
    /\ blurred = {}
    /\ submitAttempted = FALSE
    /\ call = Idle

Commit(n) ==
    /\ formData' = n.formData
    /\ errors' = n.errors
    /\ touched' = n.touched
    /\ showPassword' = n.showPassword
    /\ isSubmitted' = n.isSubmitted

\* onChange of an input: e.target carries the input's name and the new text
HandleChange(name, value) ==
    /\ formRendered(State)
    /\ Commit(handleChange(State, name, value))
    /\ lastEvent' = "edit"
    /\ UNCHANGED <<blurred, submitAttempted, call>>

\* onBlur of a controlled input: e.target.value is the rendered formData[name]
HandleBlur(name) ==
    /\ formRendered(State)
    /\ Commit(handleBlur(State, name, formData[name]))
    /\ lastEvent' = "edit"
    /\ blurred' = blurred \cup {name}
    /\ UNCHANGED <<submitAttempted, call>>

\* onSubmit of the form.  handleSubmit tests nothing but its own validation
\* result: the disabled attribute of the button keeps a click (and Enter) from
\* raising the event, but a submit event dispatched to the form (requestSubmit,
\* a test harness) runs the handler whatever isFormValid is, and handleSubmit
\* has a branch for that case.  The event is therefore taken in every editing
\* state.
HandleSubmit ==
    /\ formRendered(State)
    /\ Commit(handleSubmit(State))
    /\ lastEvent' = "submit"
    /\ submitAttempted' = TRUE
    /\ UNCHANGED <<blurred, call>>

\* onClick of "Submit Another"
HandleReset ==
    /\ resetRendered(State)
    /\ Commit(handleReset(State))
    /\ lastEvent' = "reset"
    /\ blurred' = {}
    /\ submitAttempted' = FALSE
    /\ UNCHANGED call

\* onClick of the eye button inside the password field
TogglePassword ==
    /\ formRendered(State)
    /\ Commit(togglePassword(State))
    /\ lastEvent' = "edit"
    /\ UNCHANGED <<blurred, submitAttempted, call>>

Change == \E name \in FieldNames : \E value \in Values : HandleChange(name, value)

Blur == \E name \in FieldNames : HandleBlur(name)

Next ==
    \/ Change
    \/ Blur
    \/ HandleSubmit
    \/ HandleReset
    \/ TogglePassword

Spec == Init /\ [][Next]_vars

-----------------------------------------------------------------------------
(* validate alone: on every short string over CallAlphabet, on every string *)
(* over EmailAlphabet long enough to hold an address, and on samples around *)
(* the length limits of the password and phone rules                        *)

CallAlphabet == {"a", "A", "1", "!", " ", "@", "."}

RECURSIVE StringsUpTo(_)
StringsUpTo(n) ==
    IF n = 0 THEN {<<>>}
    ELSE LET shorter == StringsUpTo(n - 1)
         IN shorter \cup {Append(s, c) : s \in shorter, c \in CallAlphabet}

\* strings over the characters the e-mail pattern tells apart
EmailAlphabet == {"a", "@", ".", " "}

RECURSIVE EmailStringsUpTo(_)
EmailStringsUpTo(n) ==
    IF n = 0 THEN {<<>>}
    ELSE LET shorter == EmailStringsUpTo(n - 1)
         IN shorter \cup {Append(s, c) : s \in shorter, c \in EmailAlphabet}

\* one character of each class the password rules ask for, in rule order
ClassChars == <<"a", "A", "1", "!">>

\* a password of length n holding exactly the classes of S, filled with "."
PasswordSample(S, n) ==
    [i \in 1..n |-> IF i \in S /\ i <= Len(ClassChars) THEN ClassChars[i] ELSE "."]

PasswordSamples ==
    {PasswordSample(S, n) :
        S \in SUBSET (1..Len(ClassChars)),
        n \in (MinPasswordLength - 1)..(MinPasswordLength + 1)}
    \cup {[i \in 1..MinPasswordLength |-> " "],
          <<"A", "b", "c", "d", "e", "f", "1", "!">>,
          <<"a", "b", "c", "d", "e", "f", "g", "1">>}

\* s with the character c put after its first p characters
InsertAt(s, p, c) == SubSeq(s, 1, p) \o <<c>> \o SubSeq(s, p + 1, Len(s))

DigitChars == <<"1", "2", "3", "4", "5", "6", "7", "8", "9", "0">>

\* the digits 1234567890123... up to length n
DigitRun(n) == [i \in 1..n |-> DigitChars[((i - 1) % Len(DigitChars)) + 1]]

\* digit runs around the limits of the phone rule, plain, with white space put
\* anywhere (once or twice in a row), and with one letter in place of a digit
PhoneSamples ==
    LET runs == {DigitRun(n) : n \in (MinPhoneDigits - 1)..(MaxPhoneDigits + 1)}
        spaced == UNION {{InsertAt(r, p, c) : p \in 0..Len(r), c \in WhiteSpace} :
                            r \in runs}
        lettered == {[r EXCEPT ![p] = "a"] : r \in runs, p \in 1..(MinPhoneDigits - 1)}
    IN runs \cup spaced
            \cup {InsertAt(InsertAt(r, 3, " "), 3, " ") : r \in runs}
            \cup {InsertAt(InsertAt(r, 3, " "), 7, " ") : r \in runs}
            \cup lettered
            \cup {<<"1", "2", "3">>}

CallValues ==
    StringsUpTo(MaxCallLen) \cup EmailStringsUpTo(MaxEmailLen)
        \cup PasswordSamples \cup PhoneSamples

InitValidate ==
    /\ formData = InitialState.formData
    /\ errors = InitialState.errors
    /\ touched = InitialState.touched
    /\ showPassword = InitialState.showPassword
    /\ isSubmitted = InitialState.isSubmitted
    /\ lastEvent = "mount"
    /\ blurred = {}
    /\ submitAttempted = FALSE
    /\ call \in [name : FieldNames, value : CallValues, result : {"pending"}]

CallValidate ==
    /\ call.result = "pending"
    /\ call' = [call EXCEPT !.result = validate(call.name, call.value)]
    /\ UNCHANGED formVars

NextValidate == CallValidate

SpecValidate == InitValidate /\ [][NextValidate]_vars

-----------------------------------------------------------------------------
(* Properties *)

AllFieldsValid(data) == \A k \in FieldNames : validate(k, data[k]) = undefined

AllFieldsNonBlank(data) == \A k \in FieldNames : trim(data[k]) # <<>>

\* C1: a submit event handled in an editing state has exactly one of two
\* outcomes.  If validate accepts all four current values the form becomes
\* submitted and the error map is empty.  Otherwise the form stays editing, the
\* values are kept, all four fields are touched and every invalid field
\* displays its validate message, whether or not it was ever blurred.
C1_SubmitOutcome ==
    [][(lastEvent' = "submit" /\ HandleSubmit) =>
        /\ ~isSubmitted
        /\ formData' = formData
        /\ IF AllFieldsValid(formData)
           THEN isSubmitted' /\ errors' = EmptyMap
           ELSE /\ ~isSubmitted'
                /\ touched' = FieldNames
                /\ \A k \in FieldNames :
                      validate(k, formData[k]) # undefined =>
                          errorProp(State', k) = validate(k, formData[k])]_vars

\* a rejected submit that reveals the message of a field never blurred
C1_Witness ==
    /\ lastEvent = "submit"
    /\ ~isSubmitted
    /\ \E k \in FieldNames \ blurred :
          /\ hasError(errorProp(State, k))
          /\ errorProp(State, k) = validate(k, formData[k])

\* C2: whenever the form is submitted, validate accepts each of the four
\* stored values, the error map is empty and all four fields are touched.
C2_SubmittedMeansValid ==
    isSubmitted =>
        /\ AllFieldsValid(formData)
        /\ errors = EmptyMap
        /\ touched = FieldNames

\* a submit that was accepted
C2_Witness == isSubmitted /\ lastEvent = "submit" /\ submitAttempted

\* C3: after a reset (only possible from the submitted state) the four values
\* are the empty string, no field is touched, the error map is empty and the
\* form is editing again.
C3_ResetClears ==
    lastEvent = "reset" =>
        /\ \A k \in FieldNames : formData[k] = EmptyString
        /\ DOMAIN formData = FieldNames
        /\ touched = {}
        /\ errors = EmptyMap
        /\ ~isSubmitted

\* the state right after "Submit Another"
C3_Witness == lastEvent = "reset" /\ ~isSubmitted /\ touched = {}

\* C4: after a reset the complete state of the component (values, error map,
\* touched flags, submitted flag and password visibility) equals the state of a
\* freshly mounted form.
C4_ResetRestoresInitialState == lastEvent = "reset" => State = InitialState

\* C5: a field that was never blurred, with no submit attempted, displays no
\* error whatever was typed into it; a field that was blurred displays exactly
\* validate(field, current value), after the blur and after every later change.
C5_ErrorRevealedByBlur ==
    \A k \in FieldNames :
        /\ (k \notin blurred /\ ~submitAttempted) => errorProp(State, k) = undefined
        /\ k \in blurred => errorProp(State, k) = validate(k, formData[k])

\* after a change: a blurred field shows its message while a never-blurred
\* field holding an invalid non-empty value shows none
C5_Witness ==
    /\ lastEvent = "edit"
    /\ ~submitAttempted
    /\ \E k \in blurred : hasError(errorProp(State, k)) /\ formData[k] # EmptyString
    /\ \E j \in FieldNames \ blurred :
          /\ formData[j] # EmptyString
          /\ validate(j, formData[j]) # undefined
          /\ errorProp(State, j) = undefined

\* C6: the submit control is enabled exactly in the editing states in which
\* validate accepts all four current values and all four values are non-blank
\* after trimming; in every other state it is disabled (or not rendered).
C6_SubmitEnabledIffValid ==
    submitEnabled(State) <=>
        /\ ~isSubmitted
        /\ AllFieldsValid(formData)
        /\ AllFieldsNonBlank(formData)

\* an editing state with the submit control enabled
C6_Witness == submitEnabled(State) /\ lastEvent = "edit" /\ touched # FieldNames

\* C7: in an editing state a field shows the success indicator only if it is
\* touched, its value is non-blank and validate accepts the value.
C7_SuccessOnlyIfTouchedAndValid ==
    ~isSubmitted =>
        \A k \in FieldNames :
            inputClasses(formData[k], errorProp(State, k)) = "success" =>
                /\ k \in touched
                /\ trim(formData[k]) # <<>>
                /\ validate(k, formData[k]) = undefined

\* C8: submit eligibility does not read the touched flags or the error map:
\* the submit control and the result of a submit (submitted or not, and the
\* resulting error map) are the same as in the state holding the same values
\* with nothing touched and no error stored.  That state is reachable by change
\* events alone, so any two editing states with equal values agree.
Untouched(s) == [s EXCEPT !.touched = {}, !.errors = EmptyMap]

C8_TouchedDoesNotAffectSubmit ==
    ~isSubmitted =>
        /\ submitEnabled(State) = submitEnabled(Untouched(State))
        /\ handleSubmit(State).isSubmitted = handleSubmit(Untouched(State)).isSubmitted
        /\ handleSubmit(State).errors = handleSubmit(Untouched(State)).errors
        /\ handleSubmit(State).touched = handleSubmit(Untouched(State)).touched

\* an editing state with some but not all fields touched, a stored message,
\* and values a submit would reject
C8_Witness ==
    /\ ~isSubmitted
    /\ touched # {}
    /\ touched # FieldNames
    /\ \E k \in DOMAIN errors : errors[k] # undefined
    /\ \E j \in FieldNames \ touched : validate(j, formData[j]) # undefined

\* C9: the only step out of the submitted state is a reset, which returns to
\* editing with all four values cleared; a reset happens in no other state.
\* Hence values, touched flags and errors stay fixed while submitted.
C9_SubmittedUntilReset ==
    [][/\ isSubmitted =>
            /\ lastEvent' = "reset"
            /\ ~isSubmitted'
            /\ \A k \in FieldNames : formData'[k] = EmptyString
       /\ lastEvent' = "reset" => isSubmitted]_vars

\* the submitted state, holding the accepted values of a form that had blurred fields
C9_Witness ==
    /\ isSubmitted
    /\ blurred # {}
    /\ \A k \in FieldNames : formData[k] # EmptyString

\* C10: validate(field, "") is that field's own required message, for each of
\* the four fields; no other message is returned for the empty string.
RequiredMessage ==
    [name |-> "Name is required.",
     email |-> "Email is required.",
     phone |-> "Phone number is required.",
     password |-> "Password is required."]

C10_EmptyIsRequired ==
    (call.result # "pending" /\ call.value = EmptyString) =>
        call.result = RequiredMessage[call.name]

\* validate was called on the empty password
C10_Witness ==
    /\ call.name = "password"
    /\ call.value = EmptyString
    /\ call.result = "Password is required."

\* the set of characters of a string
Chars(v) == {v[k] : k \in 1..Len(v)}

\* C11: for every password, validate returns the message of the first rule
\* that fails, the rules taken in the order non-empty, length at least 8,
\* a lowercase letter, an uppercase letter, a digit, one of @$!%*?&; it
\* returns no error exactly when all six rules hold.
PasswordRule(i, v) ==
    CASE i = 1 -> v # <<>>
      [] i = 2 -> Len(v) >= 8
      [] i = 3 -> Chars(v) \cap LowerCase # {}
      [] i = 4 -> Chars(v) \cap UpperCase # {}
      [] i = 5 -> Chars(v) \cap Digits # {}
      [] i = 6 -> Chars(v) \cap {"@", "$", "!", "%", "*", "?", "&"} # {}

PasswordMessages ==
    <<"Password is required.",
      "Password must be at least 8 characters long.",
      "Must contain a lowercase letter.",
      "Must contain an uppercase letter.",
      "Must contain a number.",
      "Must contain a special character (@$!%*?&).">>

C11_PasswordFirstFailingRule ==
    (call.name = "password" /\ call.result # "pending") =>
        LET failing == {i \in 1..Len(PasswordMessages) : ~PasswordRule(i, call.value)}
        IN call.result =
              IF failing = {} THEN undefined
              ELSE PasswordMessages[CHOOSE i \in failing : \A j \in failing : i <= j]

\* a password of at least 8 characters lacking both an uppercase letter and a
\* special character, which got the uppercase message
C11_Witness ==
    /\ call.name = "password"
    /\ Len(call.value) >= 8
    /\ Chars(call.value) \cap UpperCase = {}
    /\ Chars(call.value) \cap SpecialChars = {}
    /\ Chars(call.value) \cap LowerCase # {}
    /\ call.result = "Must contain an uppercase letter."

\* C12: for every non-empty phone value, validate returns no error exactly
\* when the characters that are not white space are 10 to 15 in number and all
\* decimal digits, and the digit message otherwise; putting white space
\* anywhere into the value does not change the result.
PhoneDigitsOnly(v) ==
    LET kept == {k \in 1..Len(v) : v[k] \notin WhiteSpace}
    IN /\ Cardinality(kept) >= 10
       /\ Cardinality(kept) <= 15
       /\ \A k \in kept : v[k] \in Digits

C12_PhoneDigitsModuloWhiteSpace ==
    (call.name = "phone" /\ call.result # "pending" /\ call.value # <<>>) =>
        /\ call.result = IF PhoneDigitsOnly(call.value) THEN undefined
                         ELSE "Phone must be 10 to 15 digits."
        /\ \A p \in 0..Len(call.value) : \A c \in WhiteSpace :
              validate("phone", InsertAt(call.value, p, c)) = call.result

\* a phone value accepted although it holds white space
C12_Witness ==
    /\ call.name = "phone"
    /\ call.result = undefined
    /\ Chars(call.value) \cap WhiteSpace # {}

\* C13: for every non-empty e-mail value, validate returns no error exactly
\* when the value is local "@" domain "." tld with local, domain and tld each
\* one or more characters that are neither white space nor "@", and "Invalid
\* email format." otherwise; a value with no "@", with white space, or with no
\* "." after the "@" is rejected.
EmailClean(x) == x # <<>> /\ \A k \in 1..Len(x) : x[k] \notin WhiteSpace \cup {"@"}

EmailShape(v) ==
    \E a \in 1..Len(v) : \E b \in 1..Len(v) :
        /\ a + b + 3 <= Len(v)
        /\ v[a + 1] = "@"
        /\ v[a + b + 2] = "."
        /\ EmailClean(SubSeq(v, 1, a))
        /\ EmailClean(SubSeq(v, a + 2, a + b + 1))
        /\ EmailClean(SubSeq(v, a + b + 3, Len(v)))

NoDotAfterAt(v) ==
    \A i \in 1..Len(v) : v[i] = "@" => \A j \in (i + 1)..Len(v) : v[j] # "."

C13_EmailShape ==
    (call.name = "email" /\ call.result # "pending" /\ call.value # <<>>) =>
        /\ call.result = IF EmailShape(call.value) THEN undefined
                         ELSE "Invalid email format."
        /\ ("@" \notin Chars(call.value)) => call.result = "Invalid email format."
        /\ (Chars(call.value) \cap WhiteSpace # {}) => call.result = "Invalid email format."
        /\ NoDotAfterAt(call.value) => call.result = "Invalid email format."

\* the address a@a.a was accepted
C13_Witness ==
    /\ call.name = "email"
    /\ call.value = <<"a", "@", "a", ".", "a">>
    /\ call.result = undefined

\* C14: in every reachable state the stored error of a field is determined by
\* its touched flag and its current value: validate(field, stored value) if
\* the field is touched, and no error if it is not.
C14_StoredErrorDetermined ==
    \A k \in FieldNames :
        Lookup(errors, k) =
            IF k \in touched THEN validate(k, formData[k]) ELSE undefined

\* an editing state with a touched field storing a message, a touched field
\* storing none, and an untouched invalid field storing none
C14_Witness ==
    /\ ~isSubmitted
    /\ \E k \in touched : Lookup(errors, k) # undefined
    /\ \E k \in touched : Lookup(errors, k) = undefined /\ formData[k] # EmptyString
    /\ \E j \in FieldNames \ touched :
          validate(j, formData[j]) # undefined /\ formData[j] # EmptyString

\* C15: in every editing state, for every field and every value, handleChange
\* sets that field's value, recomputes that field's error only if it is
\* touched (the error map is unchanged otherwise) and changes no touched flag;
\* handleBlur marks only that field touched, sets only that field's error and
\* changes no value; both leave the other fields' values, flags and errors,
\* the submitted flag and the password visibility as they are.
OthersKept(s, n, name) ==
    /\ \A k \in FieldNames \ {name} :
          /\ n.formData[k] = s.formData[k]
          /\ Lookup(n.errors, k) = Lookup(s.errors, k)
          /\ (k \in n.touched) = (k \in s.touched)
    /\ n.isSubmitted = s.isSubmitted
    /\ n.showPassword = s.showPassword

C15_ChangeAndBlurFrame ==
    ~isSubmitted =>
        \A name \in FieldNames : \A value \in Values :
            /\ LET n == handleChange(State, name, value)
               IN /\ n.formData[name] = value
                  /\ n.touched = touched
                  /\ name \in touched => Lookup(n.errors, name) = validate(name, value)
                  /\ name \notin touched => n.errors = errors
                  /\ OthersKept(State, n, name)
            /\ LET n == handleBlur(State, name, value)
               IN /\ n.touched = touched \cup {name}
                  /\ n.formData = formData
                  /\ Lookup(n.errors, name) = validate(name, value)
                  /\ OthersKept(State, n, name)

\* after an edit with the password shown: one field touched and showing a
\* message next to an untouched field that holds a value
C15_Witness ==
    /\ lastEvent = "edit"
    /\ showPassword
    /\ ~submitAttempted
    /\ \E k \in touched : hasError(Lookup(errors, k))
    /\ \E j \in FieldNames \ touched : formData[j] # EmptyString

\* C16: in every editing state a submit moves the form to submitted if and
\* only if isFormValid is true, that is if and only if the submit control is
\* enabled: the non-blank gate of isFormValid rejects nothing validate accepts.
C16_SubmitSucceedsIffEnabled ==
    ~isSubmitted =>
        /\ handleSubmit(State).isSubmitted <=> isFormValid(State)
        /\ AllFieldsValid(formData) => hasAllFields(State)

\* an editing state, every field blurred, whose submit would succeed
C16_Witness ==
    /\ ~isSubmitted
    /\ blurred = FieldNames
    /\ isFormValid(State)
    /\ handleSubmit(State).isSubmitted

\* C17: a touched flag is cleared by no event but reset: across every change,
\* blur, submit and toggle step the touched fields stay touched.
C17_TouchedMonotonic ==
    [][touched \subseteq touched' \/ lastEvent' = "reset"]_vars

\* an edit made after a rejected submit touched every field, none of them blurred
C17_Witness ==
    /\ lastEvent = "edit"
    /\ submitAttempted
    /\ ~isSubmitted
    /\ blurred = {}
    /\ touched = FieldNames
    /\ \E k \in FieldNames : formData[k] # EmptyString

====
